---- MODULE Spec2Model ----
(***************************************************************************)
(* Model of go-socket.io's polling frame encoder (engineio/transport/      *)
(* polling: encoder, frameWriter), of the reconnection back-off            *)
(* (RetryStrategy) and of the client life cycle (Client).                  *)
(*                                                                         *)
(* The specifications share the variables:                                 *)
(*   Spec         the encoder with two producers and one drain;            *)
(*   SpecTimed    the same with the clock and the ping timeout;            *)
(*   SpecLive     the same with the waiter, under fairness;                *)
(*   SpecReuse    the producers with a writer used after its Close;        *)
(*   SpecBackoff  the RetryStrategy alone, over a set of configurations;   *)
(*   SpecClient   the Client with its tasks and its RetryStrategy.         *)
(***************************************************************************)
EXTENDS Integers, Sequences, FiniteSets, TLC

(***************************************************************************)
(* Bounds of the model.                                                    *)
(***************************************************************************)
MaxFrames == 2
MaxBytes == 2
MaxTime == 2

(***************************************************************************)
(* Program constants.                                                      *)
(***************************************************************************)
Separator == 30
BinaryPrefix == 98
PingTimeout == 1

Producers == {"p1", "p2"}

\* Arguments of frameWriter.Write that the producers use.
WriteInputs == {<<97>>, <<98, 30>>}

\* Arguments of frameWriter.WriteByte that the producers use.
WriteByteInputs == {30}

FrameTypes == {"text", "binary"}

\* The producers' call that returned last: the caller, the operation, the
\* bytes given to Write, the error returned and the count of bytes reported
\* as written.
NoResult == [p |-> "none", op |-> "none", b |-> << >>, err |-> "none", n |-> 0]
Ok(p, o) == [p |-> p, op |-> o, b |-> << >>, err |-> "nil", n |-> 0]
Err(p, o, e) == [p |-> p, op |-> o, b |-> << >>, err |-> e, n |-> 0]
Wrote(p, b, e, k) == [p |-> p, op |-> "Write", b |-> b, err |-> e, n |-> k]
WroteByte(p, c) == [p |-> p, op |-> "WriteByte", b |-> << c >>, err |-> "nil", n |-> 0]

(***************************************************************************)
(* Sequence helpers.                                                       *)
(***************************************************************************)
Last(s) == s[Len(s)]
Contains(s, x) == \E i \in 1..Len(s) : s[i] = x
Tail3(s) == SubSeq(s, Len(s) - (Len(s) % 3) + 1, Len(s))

(***************************************************************************)
(* encoding/base64, StdEncoding: the alphabet as ASCII codes, the encoding *)
(* of a full three byte group and of the padded tail that Close flushes.   *)
(***************************************************************************)
B64Char(i) ==
    IF i < 26 THEN 65 + i
    ELSE IF i < 52 THEN 97 + (i - 26)
    ELSE IF i < 62 THEN 48 + (i - 52)
    ELSE IF i = 62 THEN 43 ELSE 47

B64Pad == 61

B64Group(a, b, c) ==
    << B64Char(a \div 4),
       B64Char((a % 4) * 16 + (b \div 16)),
       B64Char((b % 16) * 4 + (c \div 64)),
       B64Char(c % 64) >>

RECURSIVE B64Full(_)
\* the encoding of the leading full groups of s; the tail of one or two
\* bytes is kept by the streaming encoder until the next Write or Close.
B64Full(s) ==
    IF Len(s) < 3 THEN << >>
    ELSE B64Group(s[1], s[2], s[3]) \o B64Full(SubSeq(s, 4, Len(s)))

B64Tail(s) ==
    IF Len(s) = 0 THEN << >>
    ELSE IF Len(s) = 1
         THEN << B64Char(s[1] \div 4), B64Char((s[1] % 4) * 16), B64Pad, B64Pad >>
         ELSE << B64Char(s[1] \div 4),
                 B64Char((s[1] % 4) * 16 + (s[2] \div 16)),
                 B64Char((s[2] % 16) * 4),
                 B64Pad >>

(***************************************************************************)
(* State.                                                                  *)
(*   encoder (polling): hasNonClosedFrame, hasFramesChan (number of        *)
(*   pending wake-ups in the one slot channel), closed (the closed         *)
(*   channel has been closed), writer (contents of the bufWriter),         *)
(*   lastPing; now is the clock.                                           *)
(*   pc, wr: each producer's position and the frame of the writer it holds *)
(*   (index in frames, 0 when none); res: the result of the producers'     *)
(*   call that returned last.                                              *)
(*   dpc, ddeadline, dres: the drain (WriteFramesTo) position, the time    *)
(*   its timer fires and its last result; wpc: WaitFrameClose's position.  *)
(*   frames: every frameWriter handed out, in the order of the successful  *)
(*   compare-and-swap: ft (its type), kept (the bytes that its base64      *)
(*   encoder holds back), st (open until its Close has appended the        *)
(*   separator), and as history data (the bytes Write has accepted), raw   *)
(*   (the bytes given to WriteByte), wire (the bytes it has appended to    *)
(*   the buffer, the separators of Close left out), uses (the times it was *)
(*   taken up again after its Close).                                      *)
(*   History: out (all bytes written to the drain's outputs), dlost (the   *)
(*   number of bytes that left the buffer in a failed write and did not    *)
(*   reach the output), dclosed (a frame was terminated during the current *)
(*   WriteFramesTo call).                                                  *)
(***************************************************************************)
VARIABLES hasNonClosedFrame, hasFramesChan, closed, writer, lastPing, now,
          pc, wr, res, dpc, ddeadline, dres, wpc,
          frames, out, dlost, dclosed

encVars == << hasNonClosedFrame, hasFramesChan, closed, writer, lastPing, now,
              pc, wr, res, dpc, ddeadline, dres, wpc,
              frames, out, dlost, dclosed >>

\* RetryStrategy: the strategy and the history of its Duration calls
VARIABLES retryStrategy, calls, last

boVars == << retryStrategy, calls, last >>

\* Client: the fields reconnection, reconnectionAttempts, reconnecting; gen
\* (the number of connections that c.conn has held, 0 while it is nil);
\* released (the connections whose Close has run); stack, ret (each thread's
\* positions and the value its last call returned); waitOn (the connection
\* on whose channels a write or error task waits); loc (what the thread
\* holds inside Duration: read, the value of attempts it read for the
\* candidate, and att, the value it has loaded for b.attempts++); nDial,
\* nSpawn (the dials made, the successful Connects); panicked (a panic has
\* ended the program).
\* History, in hist: nested (the threads that have called Duration, dialed
\* or started tasks inside a Connect call whose handshake had failed and
\* that has not returned yet), fails (the Connect calls of reconnect that
\* have failed since the last successful Connect), delays (for each thread,
\* one entry per reconnect call it is in, innermost last: the value of
\* attempts at which that call's delay was computed), exhausted (reconnect
\* has returned the exhaustion error), late (the threads whose reconnect
\* call read c.reconnecting, as false, after that)
VARIABLES reconnection, reconnectionAttempts, reconnecting, gen, released,
          stack, ret, waitOn, loc, nDial, nSpawn, panicked, hist

cliVars == << reconnection, reconnectionAttempts, reconnecting, gen, released,
              stack, ret, waitOn, loc, nDial, nSpawn, panicked, hist >>

vars == << encVars, boVars, cliVars >>

\* newEncoder: the state after construction, all callers idle.
InitEncoder ==
    /\ hasNonClosedFrame = 0
    /\ hasFramesChan = 0
    /\ closed = FALSE
    /\ writer = << >>
    /\ lastPing = 0
    /\ now = 0
    /\ pc = [p \in Producers |-> "idle"]
    /\ wr = [p \in Producers |-> 0]
    /\ res = NoResult
    /\ dpc = "idle"
    /\ ddeadline = 0
    /\ dres = "none"
    /\ wpc = "idle"
    /\ frames = << >>
    /\ out = << >>
    /\ dlost = 0
    /\ dclosed = FALSE

\* case <-e.closed: the receive is ready once the channel has been closed
ClosedNeverSeen(c) == FALSE
ClosedFired(c) == c

(***************************************************************************)
(* Pieces of the code that the actions use.                                *)
(***************************************************************************)
\* atomic.CompareAndSwapInt32(&e.hasNonClosedFrame, 0, 1) succeeds
CasNeverFails(flag) == TRUE
CompareAndSwap(flag) == flag = 0

\* atomic.StoreInt32(w.hasNonClosedFrame, 0): the value stored
StoreKeepsFlag(flag) == flag
StoreOnClose(flag) == 0

\* the loop of frameWriter.Write over the bytes of a text frame
SeparatorFirstByteOnly(b) == Len(b) > 0 /\ b[1] = Separator
HasSeparator(b) == Contains(b, Separator)

\* select { case ch <- struct{}{}: default: } on the one slot channel
PostTwice(n) == n + 1
Post(n) == IF n = 0 THEN 1 ELSE n

\* the time at which time.After(e.pingTimeout - time.Since(e.lastPing)) fires
DeadlineFromZero(ping, t) == PingTimeout
Deadline(ping, t) == t + (PingTimeout - (t - ping))

\* the timer channel is readable
TimerEarly(deadline, t) == t + 1 >= deadline
TimerFired(deadline, t) == t >= deadline

\* what the base64 encoder of a binary frame passes on to the bufWriter when
\* b is written while it holds back the bytes kept: the full groups of kept
\* and b; the bytes it holds back afterwards
B64Write(kept, b) == B64Full(kept \o b)
B64Kept(kept, b) == Tail3(kept \o b)

\* what base64's Close passes on: the padded tail, after which the encoder
\* holds nothing back
B64Close(kept) == B64Tail(kept)

(***************************************************************************)
(* bufWriter.  newBufWriter, Write, WriteByte and WriteFinishedFrames are  *)
(* not among the source files; they are modelled from the specification:   *)
(* a growable byte sequence, whose whole contents WriteFinishedFrames      *)
(* writes to the output in one call before it clears the buffer.  The      *)
(* output is the caller's io.Writer, whose Write can fail after it has     *)
(* taken the first k bytes; the error is returned by WriteFinishedFrames.   *)
(***************************************************************************)
BufWrite(buf, b) == buf \o b
BufWriteByte(buf, c) == Append(buf, c)
WriteFinishedFrames(buf) == [written |-> buf, rest |-> << >>, err |-> "nil"]
WriteFinishedFramesFailed(buf, k) ==
    [written |-> SubSeq(buf, 1, k), rest |-> << >>, err |-> "ErrWrite"]

(***************************************************************************)
(* encoder.NextFrame, in its steps: the select on closed, the compare and  *)
(* swap, and for a binary frame the write of the prefix.                   *)
(***************************************************************************)
NextFrame_select(p, ft) ==
    /\ pc[p] = "idle"
    /\ Len(frames) < MaxFrames
    /\ IF ClosedFired(closed)
       THEN /\ res' = Err(p, "NextFrame", "EOF")
            /\ UNCHANGED << pc, wr >>
       ELSE /\ pc' = [pc EXCEPT ![p] = IF ft = "text" THEN "cas_text" ELSE "cas_binary"]
            /\ UNCHANGED << res, wr >>
    /\ UNCHANGED << hasNonClosedFrame, hasFramesChan, closed, writer, lastPing, now,
                    dpc, ddeadline, dres, wpc, frames, out, dlost, dclosed,
                    boVars, cliVars >>

KindOf(label) == IF label = "cas_text" THEN "text" ELSE "binary"

\* ret := &frameWriter{...}
NewFrame(ft) ==
    [ft |-> ft, kept |-> << >>, st |-> "open",
     data |-> << >>, raw |-> << >>, wire |-> << >>, uses |-> 0]

NextFrame_cas(p) ==
    /\ pc[p] \in {"cas_text", "cas_binary"}
    /\ IF CompareAndSwap(hasNonClosedFrame)
       THEN /\ hasNonClosedFrame' = 1
            /\ frames' = Append(frames, NewFrame(KindOf(pc[p])))
            /\ wr' = [wr EXCEPT ![p] = Len(frames) + 1]
            /\ IF pc[p] = "cas_binary"
               THEN /\ pc' = [pc EXCEPT ![p] = "prefix"]
                    /\ UNCHANGED res
               ELSE /\ pc' = [pc EXCEPT ![p] = "open"]
                    /\ res' = Ok(p, "NextFrame")
       ELSE /\ pc' = [pc EXCEPT ![p] = "idle"]
            /\ res' = Err(p, "NextFrame", "ErrNonCloseFrame")
            /\ UNCHANGED << hasNonClosedFrame, frames, wr >>
    /\ UNCHANGED << hasFramesChan, closed, writer, lastPing, now,
                    dpc, ddeadline, dres, wpc, out, dlost, dclosed,
                    boVars, cliVars >>

NextFrame_prefix(p) ==
    /\ pc[p] = "prefix"
    /\ writer' = BufWriteByte(writer, BinaryPrefix)
    /\ frames' = [frames EXCEPT ![wr[p]].wire = Append(@, BinaryPrefix)]
    /\ pc' = [pc EXCEPT ![p] = "open"]
    /\ res' = Ok(p, "NextFrame")
    /\ UNCHANGED << hasNonClosedFrame, hasFramesChan, closed, lastPing, now, wr,
                    dpc, ddeadline, dres, wpc, out, dlost, dclosed,
                    boVars, cliVars >>

RECURSIVE PayloadBytes(_)
\* the bytes given to Write and to WriteByte and accepted so far, over all
\* frames
PayloadBytes(fs) ==
    IF fs = << >> THEN 0
    ELSE Len(fs[1].data) + Len(fs[1].raw) + PayloadBytes(Tail(fs))

(***************************************************************************)
(* frameWriter.Write                                                       *)
(***************************************************************************)
Write(p, b) ==
    /\ pc[p] = "open"
    /\ \/ PayloadBytes(frames) + Len(b) <= MaxBytes
       \/ frames[wr[p]].ft = "text" /\ HasSeparator(b)
    /\ IF frames[wr[p]].ft = "binary"
       THEN /\ writer' = BufWrite(writer, B64Write(frames[wr[p]].kept, b))
            /\ frames' = [frames EXCEPT
                              ![wr[p]].data = @ \o b,
                              ![wr[p]].wire = @ \o B64Write(frames[wr[p]].kept, b),
                              ![wr[p]].kept = B64Kept(@, b)]
            /\ res' = Wrote(p, b, "nil", Len(b))
       ELSE IF HasSeparator(b)
            THEN /\ res' = Wrote(p, b, "ErrSeparatorInTextFrame", 0)
                 /\ UNCHANGED << writer, frames >>
            ELSE /\ writer' = BufWrite(writer, b)
                 /\ frames' = [frames EXCEPT ![wr[p]].data = @ \o b,
                                             ![wr[p]].wire = @ \o b]
                 /\ res' = Wrote(p, b, "nil", Len(b))
    /\ UNCHANGED << hasNonClosedFrame, hasFramesChan, closed, lastPing, now, pc, wr,
                    dpc, ddeadline, dres, wpc, out, dlost, dclosed,
                    boVars, cliVars >>

(***************************************************************************)
(* frameWriter.WriteByte: the byte goes to the bufWriter as it is, for a   *)
(* text frame and for a binary frame alike.                                *)
(***************************************************************************)
WriteByte(p, c) ==
    /\ pc[p] = "open"
    /\ PayloadBytes(frames) + 1 <= MaxBytes
    /\ writer' = BufWriteByte(writer, c)
    /\ frames' = [frames EXCEPT ![wr[p]].raw = Append(@, c),
                                ![wr[p]].wire = Append(@, c)]
    /\ res' = WroteByte(p, c)
    /\ UNCHANGED << hasNonClosedFrame, hasFramesChan, closed, lastPing, now, pc, wr,
                    dpc, ddeadline, dres, wpc, out, dlost, dclosed,
                    boVars, cliVars >>

(***************************************************************************)
(* frameWriter.Close, in its steps: the base64 tail, the separator, the    *)
(* store that releases the flag, the post to hasFramesChan.                *)
(***************************************************************************)
Close_base64(p) ==
    /\ pc[p] = "open"
    /\ frames[wr[p]].ft = "binary"
    /\ writer' = BufWrite(writer, B64Close(frames[wr[p]].kept))
    /\ frames' = [frames EXCEPT ![wr[p]].wire = @ \o B64Close(frames[wr[p]].kept),
                                ![wr[p]].kept = << >>]
    /\ pc' = [pc EXCEPT ![p] = "sep"]
    /\ UNCHANGED << hasNonClosedFrame, hasFramesChan, closed, lastPing, now, wr, res,
                    dpc, ddeadline, dres, wpc, out, dlost, dclosed,
                    boVars, cliVars >>

Close_separator(p) ==
    /\ \/ pc[p] = "sep"
       \/ pc[p] = "open" /\ frames[wr[p]].ft = "text"
    /\ writer' = BufWriteByte(writer, Separator)
    /\ frames' = [frames EXCEPT ![wr[p]].st = "closed"]
    /\ dclosed' = (dclosed \/ dpc # "idle")
    /\ pc' = [pc EXCEPT ![p] = "store"]
    /\ UNCHANGED << hasNonClosedFrame, hasFramesChan, closed, lastPing, now, wr, res,
                    dpc, ddeadline, dres, wpc, out, dlost,
                    boVars, cliVars >>

Close_store(p) ==
    /\ pc[p] = "store"
    /\ hasNonClosedFrame' = StoreOnClose(hasNonClosedFrame)
    /\ pc' = [pc EXCEPT ![p] = "post"]
    /\ UNCHANGED << hasFramesChan, closed, writer, lastPing, now, wr, res,
                    dpc, ddeadline, dres, wpc, frames, out, dlost, dclosed,
                    boVars, cliVars >>

Close_post(p) ==
    /\ pc[p] = "post"
    /\ hasFramesChan' = Post(hasFramesChan)
    /\ pc' = [pc EXCEPT ![p] = "idle"]
    /\ wr' = [wr EXCEPT ![p] = 0]
    /\ res' = Ok(p, "Close")
    /\ UNCHANGED << hasNonClosedFrame, closed, writer, lastPing, now,
                    dpc, ddeadline, dres, wpc, frames, out, dlost, dclosed,
                    boVars, cliVars >>

(***************************************************************************)
(* encoder.WriteFramesTo, in its steps: the computation of the time left   *)
(* to the ping deadline, the select (Go chooses among the ready cases),    *)
(* and on the hasFramesChan case the call of WriteFinishedFrames, whose    *)
(* error WriteFramesTo returns.                                            *)
(***************************************************************************)
WriteFramesTo_call ==
    /\ dpc = "idle"
    /\ ddeadline' = Deadline(lastPing, now)
    /\ dpc' = "select"
    /\ dres' = "none"
    /\ dclosed' = FALSE
    /\ UNCHANGED << hasNonClosedFrame, hasFramesChan, closed, writer, lastPing, now,
                    pc, wr, res, wpc, frames, out, dlost,
                    boVars, cliVars >>

WriteFramesTo_hasFrames ==
    /\ dpc = "select"
    /\ hasFramesChan > 0
    /\ hasFramesChan' = hasFramesChan - 1
    /\ dpc' = "flush"
    /\ UNCHANGED << hasNonClosedFrame, closed, writer, lastPing, now, pc, wr, res,
                    ddeadline, dres, wpc, frames, out, dlost, dclosed,
                    boVars, cliVars >>

WriteFramesTo_timeout ==
    /\ dpc = "select"
    /\ TimerFired(ddeadline, now)
    /\ lastPing' = now
    /\ dres' = "ErrPingTimeout"
    /\ dpc' = "idle"
    /\ ddeadline' = 0
    /\ dclosed' = FALSE
    /\ UNCHANGED << hasNonClosedFrame, hasFramesChan, closed, writer, now, pc, wr, res,
                    wpc, frames, out, dlost,
                    boVars, cliVars >>

WriteFramesTo_closed ==
    /\ dpc = "select"
    /\ ClosedFired(closed)
    /\ dres' = "EOF"
    /\ dpc' = "idle"
    /\ ddeadline' = 0
    /\ dclosed' = FALSE
    /\ UNCHANGED << hasNonClosedFrame, hasFramesChan, closed, writer, lastPing, now,
                    pc, wr, res, wpc, frames, out, dlost,
                    boVars, cliVars >>

WriteFramesTo_flushed(r) ==
    /\ dpc = "flush"
    /\ writer' = r.rest
    /\ out' = out \o r.written
    /\ dlost' = dlost + (Len(writer) - Len(r.written) - Len(r.rest))
    /\ dres' = r.err
    /\ dpc' = "idle"
    /\ ddeadline' = 0
    /\ dclosed' = FALSE
    /\ UNCHANGED << hasNonClosedFrame, hasFramesChan, closed, lastPing, now,
                    pc, wr, res, wpc, frames,
                    boVars, cliVars >>

WriteFramesTo_flush == WriteFramesTo_flushed(WriteFinishedFrames(writer))

\* the numbers of bytes that the failing outputs of the model take of buf
\* before they fail: none, or all but the last
FailedTakes(buf) == {0} \cup {k \in {Len(buf) - 1} : k > 0}

WriteFramesTo_flushFailed ==
    \E k \in FailedTakes(writer) :
        WriteFramesTo_flushed(WriteFinishedFramesFailed(writer, k))

(***************************************************************************)
(* encoder.WaitFrameClose, in its steps: the load of the flag, the receive *)
(* from hasFramesChan, the non-blocking send that posts it again.          *)
(***************************************************************************)
WaitFrameClose_load ==
    /\ wpc = "idle"
    /\ wpc' = IF hasNonClosedFrame = 0 THEN "idle" ELSE "recv"
    /\ UNCHANGED << hasNonClosedFrame, hasFramesChan, closed, writer, lastPing, now,
                    pc, wr, res, dpc, ddeadline, dres, frames, out, dlost, dclosed,
                    boVars, cliVars >>

WaitFrameClose_recv ==
    /\ wpc = "recv"
    /\ hasFramesChan > 0
    /\ hasFramesChan' = hasFramesChan - 1
    /\ wpc' = "send"
    /\ UNCHANGED << hasNonClosedFrame, closed, writer, lastPing, now,
                    pc, wr, res, dpc, ddeadline, dres, frames, out, dlost, dclosed,
                    boVars, cliVars >>

WaitFrameClose_send ==
    /\ wpc = "send"
    /\ hasFramesChan' = Post(hasFramesChan)
    /\ wpc' = "idle"
    /\ UNCHANGED << hasNonClosedFrame, closed, writer, lastPing, now,
                    pc, wr, res, dpc, ddeadline, dres, frames, out, dlost, dclosed,
                    boVars, cliVars >>

(***************************************************************************)
(* The environment: the owner of the encoder closes the closed channel;    *)
(* time passes.                                                            *)
(***************************************************************************)
CloseSignal ==
    /\ ~closed
    /\ closed' = TRUE
    /\ UNCHANGED << hasNonClosedFrame, hasFramesChan, writer, lastPing, now,
                    pc, wr, res, dpc, ddeadline, dres, wpc, frames, out, dlost, dclosed,
                    boVars, cliVars >>

Tick ==
    /\ now < MaxTime
    /\ now' = now + 1
    /\ UNCHANGED << hasNonClosedFrame, hasFramesChan, closed, writer, lastPing,
                    pc, wr, res, dpc, ddeadline, dres, wpc, frames, out, dlost, dclosed,
                    boVars, cliVars >>

(***************************************************************************)
(* RetryStrategy.  The fields are float64 in the source.  The model keeps  *)
(* the finite values in the integers and keeps the two values of float64   *)
(* that the arithmetic can produce beside them: Infinity (+Inf) and NaN.   *)
(* ms and max are whole numbers of one unit of time, jitter is in quarters *)
(* (JitterDen) and the draw of rand.Float64 is in eighths (RandDen).  The  *)
(* denominators are powers of two and the values are small, so that every  *)
(* product, sum and quotient that Duration computes on them is a float64   *)
(* and is computed without rounding: math.Floor sees the exact product,    *)
(* as the whole division of the model does.  factor, jitter and attempts   *)
(* are finite in every strategy of the model.                              *)
(*   retryStrategy: the fields ms, max, factor, jitter, attempts.          *)
(*   History: calls (the number of Duration calls since attempts was last  *)
(*   known to be 0, by construction or by Reset; MinusOne while unknown),  *)
(*   last (the last Duration call: its index i in calls, the fields it     *)
(*   read, the draw r, the value pre before the clamp, the result ret and  *)
(*   the attempts it left).                                                *)
(***************************************************************************)
MaxAttempts == 4
JitterDen == 4
RandDen == 8
MinusOne == 0 - 1
Infinity == 1000000000
NaN == 0 - 1000000000

Draws == 0..(RandDen - 1)

\* float64 product of values that are not negative
FMul(a, b) ==
    IF a = NaN \/ b = NaN THEN NaN
    ELSE IF a = Infinity \/ b = Infinity
         THEN IF a = 0 \/ b = 0 THEN NaN ELSE Infinity
    ELSE a * b

\* float64 sum and difference of a and a finite b, or an infinite b when a
\* is infinite: Duration subtracts a deviation that is infinite only when
\* ms is
FAdd(a, b) ==
    IF a = NaN \/ b = NaN THEN NaN
    ELSE IF a = Infinity \/ b = Infinity THEN Infinity
    ELSE a + b

FSub(a, b) ==
    IF a = NaN \/ b = NaN THEN NaN
    ELSE IF a = Infinity THEN IF b = Infinity THEN NaN ELSE Infinity
    ELSE a - b

\* math.Floor(a / den) for a whole den
FFloorDiv(a, den) == IF a = NaN \/ a = Infinity THEN a ELSE a \div den

\* the comparison a <= b of float64, false when either is NaN
FLeq(a, b) == a # NaN /\ b # NaN /\ a <= b

\* math.Min
Min(a, b) == IF a = NaN \/ b = NaN THEN NaN ELSE IF a <= b THEN a ELSE b

RECURSIVE Pow(_, _)
\* math.Pow for a finite base and a whole exponent
Pow(f, k) == IF k = 0 THEN 1 ELSE f * Pow(f, k - 1)

\* ms := b.ms * math.Pow(b.factor, b.attempts)
CandidateAfterIncrement(b) == FMul(b.ms, Pow(b.factor, b.attempts + 1))
Candidate(b) == FMul(b.ms, Pow(b.factor, b.attempts))

\* deviation := math.Floor(randVal * b.jitter * ms), randVal = r / RandDen
Deviation(b, ms, r) == FFloorDiv(FMul(r * b.jitter, ms), RandDen * JitterDen)

\* jitterDecision := int(math.Floor(randVal*10)) & 1
JitterDecision(r) == ((r * 10) \div RandDen) % 2

\* the value before the clamp: ms, less or plus the deviation
Jittered(b, r) ==
    IF b.jitter > 0
    THEN IF JitterDecision(r) = 0
         THEN FSub(Candidate(b), Deviation(b, Candidate(b), r))
         ELSE FAdd(Candidate(b), Deviation(b, Candidate(b), r))
    ELSE Candidate(b)

\* RetryStrategy.Duration: the value returned and the strategy it leaves
Duration(b, r) ==
    [ret |-> Min(Jittered(b, r), b.max),
     b |-> [b EXCEPT !.attempts = b.attempts + 1]]

\* RetryStrategy.Reset
Reset(b) == [b EXCEPT !.attempts = 0]

NoCall == [i |-> MinusOne, ms |-> 0, max |-> 0, factor |-> 0, jitter |-> 0,
           attempts |-> 0, r |-> 0, pre |-> 0, ret |-> 0, after |-> 0]

\* the record of a Duration call on b with draw r
CallOf(b, r, i) ==
    [i |-> i, ms |-> b.ms, max |-> b.max, factor |-> b.factor, jitter |-> b.jitter,
     attempts |-> b.attempts, r |-> r, pre |-> Jittered(b, r),
     ret |-> Duration(b, r).ret, after |-> Duration(b, r).b.attempts]

\* NewBackOff: the strategies the model starts from
Strategies ==
    [ms : {0, 100, Infinity}, max : {150, 100000}, factor : {1, 2}, jitter : {0, 2},
     attempts : {0, 1}]

InitBackoff ==
    /\ retryStrategy \in Strategies
    /\ calls = IF retryStrategy.attempts = 0 THEN 0 ELSE MinusOne
    /\ last = NoCall

\* a draw is made only when jitter > 0
DrawsOf(b) == IF b.jitter > 0 THEN Draws ELSE {0}

DurationCall(r) ==
    /\ retryStrategy.attempts < MaxAttempts
    /\ last' = CallOf(retryStrategy, r, calls)
    /\ retryStrategy' = Duration(retryStrategy, r).b
    /\ calls' = IF calls = MinusOne THEN MinusOne ELSE calls + 1

DoDuration == \E r \in DrawsOf(retryStrategy) : DurationCall(r)

DoReset ==
    /\ retryStrategy' = Reset(retryStrategy)
    /\ calls' = 0
    /\ UNCHANGED last

SetMin(ms) ==
    /\ retryStrategy' = [retryStrategy EXCEPT !.ms = ms]
    /\ UNCHANGED << calls, last >>

SetMax(max) ==
    /\ retryStrategy' = [retryStrategy EXCEPT !.max = max]
    /\ UNCHANGED << calls, last >>

SetJitter(jitter) ==
    /\ retryStrategy' = [retryStrategy EXCEPT !.jitter = jitter]
    /\ UNCHANGED << calls, last >>

(***************************************************************************)
(* Client.  Every goroutine that runs code of the Client is a thread with  *)
(* a stack of positions: the caller of the exported methods (User) and,    *)
(* for the k-th successful Connect, the tasks clientRead, clientWrite and  *)
(* clientError.  An empty stack is a thread that is not running.  The      *)
(* fields reconnecting and retryStrategy.attempts are read and written     *)
(* with no lock held, so every read and every write of them is a step of   *)
(* its own.                                                                *)
(*   Positions: "Connect" (before Dial), "cn_handshake" (before            *)
(*   connectClient), "cn_failed" (after the Close of a failed handshake),  *)
(*   "Emit", "Close" (before Reset or conn.Close), "cl_clear" (before      *)
(*   reconnecting = false), "reconnect" (before the read of reconnecting), *)
(*   "rc_check" (before the read of attempts), "rc_reset", "rc_clear" (at  *)
(*   exhaustion, before Reset and before reconnecting = false), "rc_dur"   *)
(*   (before Duration), "rc_inc", "rc_store" (in Duration, before the load *)
(*   and before the store of attempts++), "rc_set" (before reconnecting =  *)
(*   true), "rc_sleep", "rc_after" (after Connect returned), "rc_done"     *)
(*   (after the Reset of a successful Connect), "h_after" (the function    *)
(*   that OnDisconnect registers, after reconnect), "panic" (the deferred  *)
(*   function of a panicking task runs), "rd_loop", "wr_loop", "er_loop".  *)
(***************************************************************************)
MaxDials == 2
MaxSpawns == 1

User == << "user", 0 >>
Roles == {"rd", "wr", "er"}
Tasks == Roles \X (1..MaxSpawns)
Threads == {User} \cup Tasks

\* the value a thread keeps of a call that returned v: a task whose last
\* frame returned has ended, and the deferred function of a task drops it
Returned(t, s, v) ==
    IF t # User /\ (Len(s) = 1 \/ (Len(s) = 2 /\ s[1] = "panic")) THEN "none" ELSE v

Top(s) == IF s = << >> THEN "none" ELSE s[Len(s)]
Pop(s) == SubSeq(s, 1, Len(s) - 1)
Replace(s, l) == Append(Pop(s), l)
\* thread t is inside a Connect call whose handshake has failed
InFailedConnect(t) == \E i \in 1..Len(stack[t]) : stack[t][i] = "cn_failed"

\* what a thread holds inside Duration before it has read anything
NoLocals == [read |-> 0, att |-> 0]

\* the strategy as a Duration call saw it that read attempts as a
AsRead(b, a) == [b EXCEPT !.attempts = a]

NoHistory == [nested |-> {}, fails |-> 0, delays |-> [t \in Threads |-> << >>],
              exhausted |-> FALSE, late |-> {}]

\* hist after thread t has called Duration, dialed or started tasks
Noted(t) == IF InFailedConnect(t) THEN hist.nested \cup {t} ELSE hist.nested

LoopOf(role) == IF role = "rd" THEN "rd_loop" ELSE IF role = "wr" THEN "wr_loop" ELSE "er_loop"

\* NewClient sets reconnection = true and reconnectionAttempts = +Inf, and
\* client.go has no setter of either field.  The model starts from these
\* values and also from reconnection = false and reconnectionAttempts = 1,
\* which NewClient does not produce, so that the branches of client.go lines
\* 99-104 and 165 are exercised; every counterexample of the client's
\* claims is also found from NewClient's own values.  The RetryStrategy is
\* NewClient's.
InitClient ==
    /\ reconnection \in BOOLEAN
    /\ reconnectionAttempts \in {Infinity, 1}
    /\ reconnecting = FALSE
    /\ gen = 0
    /\ released = {}
    /\ stack = [t \in Threads |-> << >>]
    /\ ret = [t \in Threads |-> "none"]
    /\ waitOn = [t \in Threads |-> 0]
    /\ loc = [t \in Threads |-> NoLocals]
    /\ nDial = 0
    /\ nSpawn = 0
    /\ panicked = FALSE
    /\ hist = NoHistory

\* the values of rand.Float64() that the Client's threads draw, in eighths
ClientDraws == {2, 6}

\* the number of units of time in a second: with draws in eighths and the
\* jitter 0.5, every deviation of NewClient's strategy is a whole number of
\* sixteenths of the second, also after the clamp to max, and a whole
\* number of nanoseconds, so that math.Floor leaves it as it is
UnitsPerSecond == 16

\* NewBackOff(RetryStrategy{ms: 3 s, max: 10 s, factor: 2, jitter: 0.5})
NewClientStrategy ==
    [ms |-> 3 * UnitsPerSecond, max |-> 10 * UnitsPerSecond, factor |-> 2,
     jitter |-> JitterDen \div 2, attempts |-> 0]

\* c.retryStrategy.attempts >= c.reconnectionAttempts
AttemptsExceeded(a, m) == a > m
AttemptsReached(a, m) == a >= m

\* if c.reconnection, in Close
NeverReconnectOnClose(rc) == FALSE
ReconnectOnClose(rc) == rc

\* the caller of the exported methods Connect, Close, ReConnection and Emit
UserCall(m) ==
    /\ ~panicked
    /\ stack[User] = << >>
    /\ stack' = [stack EXCEPT ![User] = << m >>]
    /\ ret' = [ret EXCEPT ![User] = "none"]
    /\ UNCHANGED << reconnection, reconnectionAttempts, reconnecting, gen, released,
                    waitOn, loc, nDial, nSpawn, panicked, boVars, encVars >>
    /\ UNCHANGED hist

\* Client.Emit: c.conn.namespaces.Get(c.namespace) on the nil c.conn panics;
\* on a connection the packet is handed to the namespace
Client_Emit(t) ==
    /\ ~panicked
    /\ Top(stack[t]) = "Emit"
    /\ IF gen = 0
       THEN /\ panicked' = TRUE
            /\ UNCHANGED stack
       ELSE /\ stack' = [stack EXCEPT ![t] = Pop(@)]
            /\ UNCHANGED panicked
    /\ UNCHANGED << reconnection, reconnectionAttempts, reconnecting, gen, released,
                    ret, waitOn, loc, nDial, nSpawn, boVars, encVars >>
    /\ UNCHANGED hist

\* Client.Close: with reconnection c.retryStrategy.Reset(), else
\* c.conn.Close(), which panics on the nil c.conn
Client_Close(t) ==
    /\ ~panicked
    /\ Top(stack[t]) = "Close"
    /\ IF ReconnectOnClose(reconnection)
       THEN /\ retryStrategy' = Reset(retryStrategy)
            /\ calls' = 0
            /\ stack' = [stack EXCEPT ![t] = Replace(@, "cl_clear")]
            /\ UNCHANGED << released, ret, panicked >>
       ELSE IF gen = 0
            THEN /\ panicked' = TRUE
                 /\ UNCHANGED << retryStrategy, calls, stack, released, ret >>
            ELSE /\ released' = released \cup {gen}
                 /\ stack' = [stack EXCEPT ![t] = Pop(@)]
                 /\ ret' = [ret EXCEPT ![t] = Returned(t, stack[t], "nil")]
                 /\ UNCHANGED << retryStrategy, calls, panicked >>
    /\ UNCHANGED << reconnection, reconnectionAttempts, reconnecting, gen, waitOn, loc,
                    nDial, nSpawn, last, encVars >>
    /\ UNCHANGED hist

\* Client.Close: c.reconnecting = false, then the call of reconnect
Close_clear(t) ==
    /\ ~panicked
    /\ Top(stack[t]) = "cl_clear"
    /\ reconnecting' = FALSE
    /\ stack' = [stack EXCEPT ![t] = Replace(@, "reconnect")]
    /\ UNCHANGED << reconnection, reconnectionAttempts, gen, released, ret, waitOn, loc,
                    nDial, nSpawn, panicked, boVars, encVars >>
    /\ UNCHANGED hist

\* Client.reconnect: if c.reconnecting { return nil }
Reconnect_flag(t) ==
    /\ ~panicked
    /\ Top(stack[t]) = "reconnect"
    /\ IF reconnecting
       THEN /\ stack' = [stack EXCEPT ![t] = Pop(@)]
            /\ ret' = [ret EXCEPT ![t] = Returned(t, stack[t], "nil")]
       ELSE /\ stack' = [stack EXCEPT ![t] = Replace(@, "rc_check")]
            /\ UNCHANGED ret
    /\ UNCHANGED << reconnection, reconnectionAttempts, reconnecting, gen, released,
                    waitOn, loc, nDial, nSpawn, panicked, boVars, encVars >>
    /\ hist' = [hist EXCEPT !.late =
                    IF hist.exhausted /\ ~reconnecting THEN @ \cup {t} ELSE @ \ {t}]

\* Client.reconnect: if c.retryStrategy.attempts >= c.reconnectionAttempts
Reconnect_check(t) ==
    /\ ~panicked
    /\ Top(stack[t]) = "rc_check"
    /\ stack' = [stack EXCEPT ![t] =
                    IF AttemptsReached(retryStrategy.attempts, reconnectionAttempts)
                    THEN Replace(@, "rc_reset") ELSE Replace(@, "rc_dur")]
    /\ UNCHANGED << reconnection, reconnectionAttempts, reconnecting, gen, released,
                    ret, waitOn, loc, nDial, nSpawn, panicked, boVars, encVars >>
    /\ UNCHANGED hist

\* Client.reconnect, at exhaustion: c.retryStrategy.Reset()
Reconnect_reset(t) ==
    /\ ~panicked
    /\ Top(stack[t]) = "rc_reset"
    /\ retryStrategy' = Reset(retryStrategy)
    /\ calls' = 0
    /\ stack' = [stack EXCEPT ![t] = Replace(@, "rc_clear")]
    /\ UNCHANGED << reconnection, reconnectionAttempts, reconnecting, gen, released,
                    ret, waitOn, loc, nDial, nSpawn, panicked, last, encVars >>
    /\ UNCHANGED hist

\* Client.reconnect, at exhaustion: c.reconnecting = false and the return of
\* the error
Reconnect_clear(t) ==
    /\ ~panicked
    /\ Top(stack[t]) = "rc_clear"
    /\ reconnecting' = FALSE
    /\ stack' = [stack EXCEPT ![t] = Pop(@)]
    /\ ret' = [ret EXCEPT ![t] = Returned(t, stack[t], "exhausted")]
    /\ UNCHANGED << reconnection, reconnectionAttempts, gen, released, waitOn, loc,
                    nDial, nSpawn, panicked, boVars, encVars >>
    /\ hist' = [hist EXCEPT !.exhausted = TRUE]

\* RetryStrategy.Duration, called by reconnect with no lock held: the read
\* of b.attempts in ms := b.ms * math.Pow(b.factor, b.attempts)
Reconnect_duration(t) ==
    /\ ~panicked
    /\ Top(stack[t]) = "rc_dur"
    /\ retryStrategy.attempts < MaxAttempts
    /\ loc' = [loc EXCEPT ![t].read = retryStrategy.attempts]
    /\ stack' = [stack EXCEPT ![t] = Replace(@, "rc_inc")]
    /\ UNCHANGED << reconnection, reconnectionAttempts, reconnecting, gen, released,
                    ret, waitOn, nDial, nSpawn, panicked, boVars, encVars >>
    /\ hist' = [hist EXCEPT !.nested = Noted(t),
                            !.delays[t] = Append(@, retryStrategy.attempts)]

\* RetryStrategy.Duration: the load of b.attempts++
Duration_load(t) ==
    /\ ~panicked
    /\ Top(stack[t]) = "rc_inc"
    /\ loc' = [loc EXCEPT ![t].att = retryStrategy.attempts]
    /\ stack' = [stack EXCEPT ![t] = Replace(@, "rc_store")]
    /\ UNCHANGED << reconnection, reconnectionAttempts, reconnecting, gen, released,
                    ret, waitOn, nDial, nSpawn, panicked, boVars, encVars >>
    /\ UNCHANGED hist

\* RetryStrategy.Duration: the store of b.attempts++, then the draw, the
\* jitter and the clamp on the candidate of the value read, and the return.
\* The record of the call is made here: its index is the number of calls
\* that had stored before it, and it leaves attempts as it stores it.
Duration_store(t) ==
    /\ ~panicked
    /\ Top(stack[t]) = "rc_store"
    /\ retryStrategy' = [retryStrategy EXCEPT !.attempts = loc[t].att + 1]
    /\ calls' = IF calls = MinusOne \/ loc[t].att # retryStrategy.attempts
                THEN MinusOne ELSE calls + 1
    /\ \E r \in ClientDraws :
          last' = [CallOf(AsRead(retryStrategy, loc[t].read), r, calls)
                      EXCEPT !.after = loc[t].att + 1]
    /\ loc' = [loc EXCEPT ![t] = NoLocals]
    /\ stack' = [stack EXCEPT ![t] = Replace(@, "rc_set")]
    /\ UNCHANGED << reconnection, reconnectionAttempts, reconnecting, gen, released,
                    ret, waitOn, nDial, nSpawn, panicked, encVars >>
    /\ UNCHANGED hist

\* Client.reconnect: c.reconnecting = true
Reconnect_set(t) ==
    /\ ~panicked
    /\ Top(stack[t]) = "rc_set"
    /\ reconnecting' = TRUE
    /\ stack' = [stack EXCEPT ![t] = Replace(@, "rc_sleep")]
    /\ UNCHANGED << reconnection, reconnectionAttempts, gen, released, ret, waitOn, loc,
                    nDial, nSpawn, panicked, boVars, encVars >>
    /\ UNCHANGED hist

\* Client.reconnect: time.Sleep(delay), then the call of Connect
Reconnect_sleep(t) ==
    /\ ~panicked
    /\ Top(stack[t]) = "rc_sleep"
    /\ stack' = [stack EXCEPT ![t] = Pop(@) \o << "rc_after", "Connect" >>]
    /\ UNCHANGED << reconnection, reconnectionAttempts, reconnecting, gen, released,
                    ret, waitOn, loc, nDial, nSpawn, panicked, boVars, encVars >>
    /\ UNCHANGED hist

\* Client.reconnect, after Connect has returned: on nil
\* c.retryStrategy.Reset(); on an error c.reconnecting = false and the loop
\* goes back to the sleep
Reconnect_after(t) ==
    /\ ~panicked
    /\ Top(stack[t]) = "rc_after"
    /\ IF ret[t] = "nil"
       THEN /\ retryStrategy' = Reset(retryStrategy)
            /\ calls' = 0
            /\ stack' = [stack EXCEPT ![t] = Replace(@, "rc_done")]
            /\ UNCHANGED reconnecting
       ELSE /\ reconnecting' = FALSE
            /\ stack' = [stack EXCEPT ![t] = Replace(@, "rc_sleep")]
            /\ UNCHANGED << retryStrategy, calls >>
    /\ ret' = [ret EXCEPT ![t] = "none"]
    /\ UNCHANGED << reconnection, reconnectionAttempts, gen, released, waitOn, loc,
                    nDial, nSpawn, panicked, last, encVars >>
    /\ hist' = IF ret[t] = "nil" THEN hist ELSE [hist EXCEPT !.fails = @ + 1]

\* Client.reconnect, after a Connect that succeeded: c.reconnecting = false,
\* break, return nil
Reconnect_done(t) ==
    /\ ~panicked
    /\ Top(stack[t]) = "rc_done"
    /\ reconnecting' = FALSE
    /\ stack' = [stack EXCEPT ![t] = Pop(@)]
    /\ ret' = [ret EXCEPT ![t] = Returned(t, stack[t], "nil")]
    /\ UNCHANGED << reconnection, reconnectionAttempts, gen, released, waitOn, loc,
                    nDial, nSpawn, panicked, boVars, encVars >>
    /\ hist' = [hist EXCEPT !.delays[t] = Pop(@)]

\* Client.Connect: dialer.Dial and, when it succeeds, c.conn = newConn(...)
Connect_dial(t, ok) ==
    /\ ~panicked
    /\ Top(stack[t]) = "Connect"
    /\ nDial < MaxDials
    /\ nDial' = nDial + 1
    /\ IF ok
       THEN /\ gen' = gen + 1
            /\ stack' = [stack EXCEPT ![t] = Replace(@, "cn_handshake")]
            /\ UNCHANGED ret
       ELSE /\ stack' = [stack EXCEPT ![t] = Pop(@)]
            /\ ret' = [ret EXCEPT ![t] = Returned(t, stack[t], "err")]
            /\ UNCHANGED gen
    /\ UNCHANGED << reconnection, reconnectionAttempts, reconnecting, released, waitOn,
                    loc, nSpawn, panicked, boVars, encVars >>
    /\ hist' = [hist EXCEPT !.nested = Noted(t)]

\* Client.Connect: c.conn.connectClient(); the three tasks when it succeeds,
\* the call of Close when it fails
Connect_handshake(t, ok) ==
    /\ ~panicked
    /\ Top(stack[t]) = "cn_handshake"
    /\ ok => nSpawn < MaxSpawns
    /\ IF ok
       THEN /\ stack' = [u \in Threads |->
                  IF u = t THEN Pop(stack[t])
                  ELSE IF u \in Tasks /\ u[2] = nSpawn + 1 THEN << LoopOf(u[1]) >>
                  ELSE stack[u]]
            /\ waitOn' = [u \in Threads |->
                  IF u \in Tasks /\ u[2] = nSpawn + 1 THEN gen ELSE waitOn[u]]
            /\ ret' = [ret EXCEPT ![t] = Returned(t, stack[t], "nil")]
            /\ nSpawn' = nSpawn + 1
       ELSE /\ stack' = [stack EXCEPT ![t] = Pop(@) \o << "cn_failed", "Close" >>]
            /\ UNCHANGED << waitOn, ret, nSpawn >>
    /\ UNCHANGED << reconnection, reconnectionAttempts, reconnecting, gen, released,
                    loc, nDial, panicked, boVars, encVars >>
    /\ hist' = IF ok THEN [hist EXCEPT !.nested = Noted(t), !.fails = 0] ELSE hist

\* Client.Connect: after the Close of a failed handshake, root.onError and
\* the return of the error
Connect_failed(t) ==
    /\ ~panicked
    /\ Top(stack[t]) = "cn_failed"
    /\ stack' = [stack EXCEPT ![t] = Pop(@)]
    /\ ret' = [ret EXCEPT ![t] = Returned(t, stack[t], "err")]
    /\ UNCHANGED << reconnection, reconnectionAttempts, reconnecting, gen, released,
                    waitOn, loc, nDial, nSpawn, panicked, boVars, encVars >>
    /\ hist' = [hist EXCEPT !.nested =
                    IF \E i \in 1..(Len(stack[t]) - 1) : stack[t][i] = "cn_failed"
                    THEN @ ELSE @ \ {t}]

\* clientRead: a decode error or a handler error ends the task, whose
\* deferred function calls Close
Read_error(t) ==
    /\ ~panicked
    /\ stack[t] = << "rd_loop" >>
    /\ stack' = [stack EXCEPT ![t] = << "Close" >>]
    /\ UNCHANGED << reconnection, reconnectionAttempts, reconnecting, gen, released,
                    ret, waitOn, loc, nDial, nSpawn, panicked, boVars, encVars >>
    /\ UNCHANGED hist

\* clientRead: a disconnect packet runs the function that OnDisconnect
\* registered (the dispatch is not among the source files): f(cc, s), then
\* the call of reconnect when c.reconnection
Handler_call(t) ==
    /\ ~panicked
    /\ stack[t] = << "rd_loop" >>
    /\ reconnection
    /\ stack' = [stack EXCEPT ![t] = << "rd_loop", "h_after", "reconnect" >>]
    /\ UNCHANGED << reconnection, reconnectionAttempts, reconnecting, gen, released,
                    ret, waitOn, loc, nDial, nSpawn, panicked, boVars, encVars >>
    /\ UNCHANGED hist

\* the function of OnDisconnect: panic(err) when reconnect returned an
\* error.  The panic unwinds the goroutine of clientRead, whose deferred
\* function calls Close before the program ends.
Handler_after(t) ==
    /\ ~panicked
    /\ Top(stack[t]) = "h_after"
    /\ stack' = [stack EXCEPT ![t] =
                    IF ret[t] = "exhausted" THEN << "panic", "Close" >> ELSE Pop(@)]
    /\ ret' = [ret EXCEPT ![t] = "none"]
    /\ UNCHANGED << reconnection, reconnectionAttempts, reconnecting, gen, released,
                    waitOn, loc, nDial, nSpawn, panicked, boVars, encVars >>
    /\ UNCHANGED hist

\* the deferred function of a panicking goroutine has returned: the program
\* ends
Task_panic(t) ==
    /\ ~panicked
    /\ stack[t] = << "panic" >>
    /\ panicked' = TRUE
    /\ UNCHANGED << reconnection, reconnectionAttempts, reconnecting, gen, released,
                    stack, ret, waitOn, loc, nDial, nSpawn, boVars, encVars >>
    /\ UNCHANGED hist

\* clientWrite, clientError: case <-c.conn.quitChan, on the connection whose
\* channels the task waits on; the deferred function calls Close
Task_quit(t) ==
    /\ ~panicked
    /\ stack[t] \in {<< "wr_loop" >>, << "er_loop" >>}
    /\ waitOn[t] \in released
    /\ stack' = [stack EXCEPT ![t] = << "Close" >>]
    /\ UNCHANGED << reconnection, reconnectionAttempts, reconnecting, gen, released,
                    ret, waitOn, loc, nDial, nSpawn, panicked, boVars, encVars >>
    /\ UNCHANGED hist

\* clientWrite, clientError: a packet or an error is taken from the queue
\* and the select is entered again, on the channels of the current c.conn
Task_next(t) ==
    /\ ~panicked
    /\ stack[t] \in {<< "wr_loop" >>, << "er_loop" >>}
    /\ waitOn[t] # gen
    /\ waitOn' = [waitOn EXCEPT ![t] = gen]
    /\ UNCHANGED << reconnection, reconnectionAttempts, reconnecting, gen, released,
                    stack, ret, loc, nDial, nSpawn, panicked, boVars, encVars >>
    /\ UNCHANGED hist

\* the producers' steps
NextProducer(p) ==
    \/ \E ft \in FrameTypes : NextFrame_select(p, ft)
    \/ NextFrame_cas(p)
    \/ NextFrame_prefix(p)
    \/ \E b \in WriteInputs : Write(p, b)
    \/ \E c \in WriteByteInputs : WriteByte(p, c)
    \/ Close_base64(p)
    \/ Close_separator(p)
    \/ Close_store(p)
    \/ Close_post(p)

\* the drain's steps that do not depend on the clock
NextDrain ==
    \/ WriteFramesTo_call
    \/ WriteFramesTo_hasFrames
    \/ WriteFramesTo_closed
    \/ WriteFramesTo_flush
    \/ WriteFramesTo_flushFailed

\* the parts of the state that a specification leaves out stay as built
IdleEncoder == InitEncoder
IdleBackoff ==
    /\ retryStrategy = [ms |-> 0, max |-> 0, factor |-> 1, jitter |-> 0, attempts |-> 0]
    /\ calls = 0
    /\ last = NoCall

IdleClient ==
    /\ reconnection = TRUE
    /\ reconnectionAttempts = Infinity
    /\ reconnecting = FALSE
    /\ gen = 0
    /\ released = {}
    /\ stack = [t \in Threads |-> << >>]
    /\ ret = [t \in Threads |-> "none"]
    /\ waitOn = [t \in Threads |-> 0]
    /\ loc = [t \in Threads |-> NoLocals]
    /\ nDial = 0
    /\ nSpawn = 0
    /\ panicked = FALSE
    /\ hist = NoHistory

Init == InitEncoder /\ IdleBackoff /\ IdleClient

\* Two producers, the drain and the close of the encoder, within a span of
\* time shorter than the ping timeout.
Next ==
    \/ \E p \in Producers : NextProducer(p)
    \/ NextDrain
    \/ CloseSignal

Spec == Init /\ [][Next]_vars

\* One producer, the drain, the clock and the close of the encoder.
NextTimed ==
    \/ NextProducer("p1")
    \/ NextDrain
    \/ WriteFramesTo_timeout
    \/ CloseSignal
    \/ Tick

SpecTimed == Init /\ [][NextTimed]_vars

\* The RetryStrategy alone, from every strategy of Strategies.
InitBackoffAlone == IdleEncoder /\ InitBackoff /\ IdleClient

Backoff_Duration == DoDuration /\ UNCHANGED << encVars, cliVars >>
Backoff_Reset == DoReset /\ UNCHANGED << encVars, cliVars >>
Backoff_SetMin(ms) == SetMin(ms) /\ UNCHANGED << encVars, cliVars >>
Backoff_SetMax(max) == SetMax(max) /\ UNCHANGED << encVars, cliVars >>
Backoff_SetJitter(jitter) == SetJitter(jitter) /\ UNCHANGED << encVars, cliVars >>

NextBackoff ==
    \/ Backoff_Duration
    \/ Backoff_Reset
    \/ \E ms \in {0, 100, Infinity} : Backoff_SetMin(ms)
    \/ \E max \in {150, 100000} : Backoff_SetMax(max)
    \/ \E jitter \in {0, 2, 4, 6} : Backoff_SetJitter(jitter)

SpecBackoff == InitBackoffAlone /\ [][NextBackoff]_vars

\* The Client with its threads and its RetryStrategy.
InitClientAlone ==
    /\ IdleEncoder
    /\ retryStrategy = NewClientStrategy
    /\ calls = 0
    /\ last = NoCall
    /\ InitClient

NextClient ==
    \/ \E m \in {"Connect", "Close", "reconnect", "Emit"} : UserCall(m)
    \/ \E t \in Threads : Client_Emit(t)
    \/ \E t \in Threads : Client_Close(t)
    \/ \E t \in Threads : Close_clear(t)
    \/ \E t \in Threads : Reconnect_flag(t)
    \/ \E t \in Threads : Reconnect_check(t)
    \/ \E t \in Threads : Reconnect_reset(t)
    \/ \E t \in Threads : Reconnect_clear(t)
    \/ \E t \in Threads : Reconnect_duration(t)
    \/ \E t \in Threads : Duration_load(t)
    \/ \E t \in Threads : Duration_store(t)
    \/ \E t \in Threads : Reconnect_set(t)
    \/ \E t \in Threads : Reconnect_sleep(t)
    \/ \E t \in Threads : Reconnect_after(t)
    \/ \E t \in Threads : Reconnect_done(t)
    \/ \E t \in Threads, ok \in BOOLEAN : Connect_dial(t, ok)
    \/ \E t \in Threads, ok \in BOOLEAN : Connect_handshake(t, ok)
    \/ \E t \in Threads : Connect_failed(t)
    \/ \E t \in Tasks : Read_error(t)
    \/ \E t \in Tasks : Handler_call(t)
    \/ \E t \in Threads : Handler_after(t)
    \/ \E t \in Tasks : Task_panic(t)
    \/ \E t \in Tasks : Task_quit(t)
    \/ \E t \in Tasks : Task_next(t)

SpecClient == InitClientAlone /\ [][NextClient]_vars

(***************************************************************************)
(* The bytes of a frame, used to state the claims: what its writer has     *)
(* appended to the buffer (the payload of a text frame, the prefix and the *)
(* base64 text of a binary frame, and the bytes of WriteByte as they are); *)
(* each closed frame is followed by one separator.                         *)
(***************************************************************************)
FrameBytes(f) == f.wire

RECURSIVE StreamOf(_)
StreamOf(fs) ==
    IF fs = << >> THEN << >>
    ELSE FrameBytes(fs[1]) \o << Separator >> \o StreamOf(Tail(fs))

ClosedFrames == SelectSeq(frames, LAMBDA f : f.st = "closed")
OpenFrames == {i \in DOMAIN frames : frames[i].st = "open"}
CasLabels == {"cas_text", "cas_binary"}

(***************************************************************************)
(* C1.  At most one frame writer is open at any time: of the frames whose  *)
(* writers NextFrame has handed out, at most one has not been terminated   *)
(* by Close, whatever the interleaving of the producers' calls.            *)
(***************************************************************************)
C1_AtMostOneOpenWriter == Cardinality(OpenFrames) <= 1

\* one producer holds an open writer and the other's NextFrame was rejected
C1_Witness ==
    /\ pc["p1"] = "open"
    /\ res = Err("p2", "NextFrame", "ErrNonCloseFrame")

(***************************************************************************)
(* C2.  On an encoder that is not closed, a NextFrame call that reaches    *)
(* its compare-and-swap while another producer holds a writer returned by  *)
(* NextFrame and not yet closed fails with ErrNonCloseFrame and changes    *)
(* neither the buffer nor the flag nor the ready signal; when every writer *)
(* handed out so far has been closed and its Close has returned, the call  *)
(* succeeds and takes the flag.                                            *)
(***************************************************************************)
C2_ReuseRejectedThenAccepted ==
    [][\A p \in Producers :
          (~closed /\ pc[p] \in CasLabels /\ pc'[p] \notin CasLabels) =>
             /\ (\E q \in Producers \ {p} : pc[q] = "open") =>
                   /\ pc'[p] = "idle"
                   /\ res' = Err(p, "NextFrame", "ErrNonCloseFrame")
                   /\ UNCHANGED << writer, hasNonClosedFrame, hasFramesChan >>
             /\ (/\ frames # << >>
                 /\ OpenFrames = {}
                 /\ \A q \in Producers \ {p} : pc[q] \in CasLabels \cup {"idle"}) =>
                   /\ pc'[p] \in {"open", "prefix"}
                   /\ hasNonClosedFrame' = 1
                   /\ Len(frames') = Len(frames) + 1
      ]_vars

\* a second writer was handed out after the first was closed, and a
\* NextFrame made while the second is open was rejected
C2_Witness ==
    /\ ~closed
    /\ Len(frames) = 2
    /\ frames[1].st = "closed"
    /\ frames[2].st = "open"
    /\ res.op = "NextFrame"
    /\ res.err = "ErrNonCloseFrame"

(***************************************************************************)
(* C3.  A flush on the ready-signal path writes complete frames only: when *)
(* WriteFinishedFrames has run, the output holds no byte of a frame whose  *)
(* writer is still open.                                                   *)
(***************************************************************************)
C3_FlushWritesCompleteFramesOnly ==
    [][(dpc = "flush" /\ dpc' = "idle") =>
          Len(out') <= Len(StreamOf(ClosedFrames))]_vars

(***************************************************************************)
(* C4.  A Write on an open text frame whose bytes contain the separator    *)
(* fails with ErrSeparatorInTextFrame and reports zero bytes written; the  *)
(* buffer, the frame, the writer's being open, the flag and the ready      *)
(* signal are as before the call.                                          *)
(***************************************************************************)
C4_SeparatorWriteRejected ==
    [][\A p \in Producers :
          (/\ pc[p] = "open"
           /\ frames[wr[p]].ft = "text"
           /\ UNCHANGED << pc, dpc, closed, now, lastPing >>
           /\ res'.p = p
           /\ res'.op = "Write"
           /\ Contains(res'.b, Separator)) =>
             /\ res'.err = "ErrSeparatorInTextFrame"
             /\ res'.n = 0
             /\ UNCHANGED << writer, frames, out, wr, hasNonClosedFrame, hasFramesChan >>
      ]_vars

\* a write of two bytes, the second the separator, was rejected on a text
\* frame that already holds a payload byte
C4_Witness ==
    /\ res = Wrote("p1", << 98, 30 >>, "ErrSeparatorInTextFrame", 0)
    /\ pc["p1"] = "open"
    /\ frames[wr["p1"]].ft = "text"
    /\ frames[wr["p1"]].data = << 97 >>
    /\ writer = << 97 >>

(***************************************************************************)
(* C5.  While only text frames have been opened and no write to an output  *)
(* has failed, all that the drain has written to its outputs is the        *)
(* payload and one separator of each of the first k closed frames, in the  *)
(* order their writers were opened, for some k: nothing else, nothing      *)
(* twice, nothing out of order.                                            *)
(***************************************************************************)
C5_OutputIsClosedFramesInOrder ==
    (dlost = 0 /\ \A i \in DOMAIN frames : frames[i].ft = "text") =>
        \E k \in 0..Len(ClosedFrames) : out = StreamOf(SubSeq(ClosedFrames, 1, k))

(***************************************************************************)
(* C6.  The claim as stated: on an encoder that is not closed, every       *)
(* return of WriteFramesTo is preceded, within that call, by a frame close *)
(* or by the ping deadline passing, and a return that does not go through  *)
(* the flush is the deadline path.                                         *)
(***************************************************************************)
DrainReturns == dpc \in {"select", "flush"} /\ dpc' = "idle"

DeadlinePath ==
    /\ dres' = "ErrPingTimeout"
    /\ now >= lastPing + PingTimeout
    /\ lastPing' = now
    /\ UNCHANGED << out, writer >>

C6_ReturnAfterCloseInCallOrDeadline ==
    [][(DrainReturns /\ ~closed) =>
          /\ dclosed \/ now >= lastPing + PingTimeout
          /\ dpc = "select" => DeadlinePath
      ]_vars

(***************************************************************************)
(* C6, amended.  On an encoder that is not closed, WriteFramesTo returns   *)
(* either on the deadline path, at or after pingTimeout past lastPing,     *)
(* with ErrPingTimeout, lastPing set to the current time, nothing written  *)
(* and nothing removed from the buffer; or after it has taken a ready      *)
(* signal, which the Close of some frame posted, during the call or before *)
(* it began, and has passed the buffer to the output, with nil or with the *)
(* error of the output.                                                    *)
(***************************************************************************)
C6_ReturnAfterSignalOrDeadline ==
    [][(DrainReturns /\ ~closed) =>
          IF dpc = "select"
          THEN DeadlinePath
          ELSE /\ dres' \in {"nil", "ErrWrite"}
               /\ Len(ClosedFrames) >= 1
      ]_vars

\* the drain returned on the deadline path, later than time 0, while the
\* buffer held the bytes of an open frame, which stay in the buffer
C6_Witness ==
    /\ dres = "ErrPingTimeout"
    /\ ~closed
    /\ lastPing = now
    /\ now >= PingTimeout
    /\ writer # << >>
    /\ out = << >>

(***************************************************************************)
(* RetryStrategy: what the Duration calls return                           *)
(***************************************************************************)
\* a Duration call has been made
Called == last.after >= 1

FAbs(a) == IF a = NaN \/ a = Infinity THEN a ELSE IF a < 0 THEN 0 - a ELSE a

\* C7: with jitter 0 and factor >= 1, the N-th Duration call (from 0) since
\* attempts was 0 returns min(ms * factor^N, max) and leaves attempts one
\* higher than it found it.
C7_NthDurationIsClampedPower ==
    (Called /\ last.i >= 0 /\ last.jitter = 0 /\ last.factor >= 1)
        => /\ last.ret = Min(FMul(last.ms, Pow(last.factor, last.i)), last.max)
           /\ last.after = last.attempts + 1

\* the fourth call of the strategy ms = 100, factor = 2, max = 100000 has
\* returned 800
C7_Witness ==
    /\ Called
    /\ last.i = 3
    /\ last.ms = 100 /\ last.factor = 2 /\ last.jitter = 0 /\ last.max = 100000
    /\ last.ret = 800
    /\ retryStrategy.attempts = 4

\* C8: for ms >= 0, factor >= 1, max >= 0 and jitter in [0, 1], every
\* Duration call returns a value in [0, max], and the value before the clamp
\* is within jitter * candidate of the candidate ms * factor^attempts.
C8_DurationWithinBounds ==
    (Called /\ FLeq(0, last.ms) /\ last.factor >= 1 /\ FLeq(0, last.max)
            /\ 0 <= last.jitter /\ last.jitter <= JitterDen)
        => /\ FLeq(0, last.ret)
           /\ FLeq(last.ret, last.max)
           /\ \/ last.pre = FMul(last.ms, Pow(last.factor, last.attempts))
              \/ FLeq(FMul(JitterDen,
                           FAbs(FSub(last.pre,
                                     FMul(last.ms, Pow(last.factor, last.attempts))))),
                      FMul(last.jitter, FMul(last.ms, Pow(last.factor, last.attempts))))

(***************************************************************************)
(* Client: reconnect at exhaustion, Close                                  *)
(***************************************************************************)
\* the step of thread t out of the position l
StepFrom(t, l) == Top(stack[t]) = l /\ stack'[t] # stack[t]

\* the positions of reconnect's exhaustion branch
ExhaustionPath == {"rc_check", "rc_reset", "rc_clear"}

\* C9: a reconnect call whose checks find no reconnection in flight and
\* attempts at or above reconnectionAttempts goes on to return the
\* exhaustion error: on its way it resets attempts to 0 and at its return
\* it sets reconnecting to false; it does not sleep, calls no Duration,
\* does not dial and starts no task.
C9_ExhaustedReconnectReturnsAtOnce ==
    [][\A t \in Threads :
          /\ (StepFrom(t, "rc_check")
                 /\ retryStrategy.attempts >= reconnectionAttempts)
             => stack'[t] = Replace(stack[t], "rc_reset")
          /\ StepFrom(t, "rc_reset")
             => /\ stack'[t] = Replace(stack[t], "rc_clear")
                /\ retryStrategy'.attempts = 0
          /\ StepFrom(t, "rc_clear")
             => /\ stack'[t] = Pop(stack[t])
                /\ ret'[t] = Returned(t, stack[t], "exhausted")
                /\ reconnecting' = FALSE
          /\ (\E l \in ExhaustionPath : StepFrom(t, l))
             => /\ UNCHANGED << last, loc, nDial, nSpawn, gen, released >>
                /\ \A u \in Threads \ {t} : stack'[u] = stack[u]]_vars

\* ReConnection has returned the exhaustion error to its caller while
\* another thread is inside reconnect, between two attempts to connect
C9_Witness ==
    /\ ret[User] = "exhausted"
    /\ stack[User] = << >>
    /\ reconnectionAttempts = 1
    /\ retryStrategy.attempts = 0
    /\ ~reconnecting
    /\ \E t \in Tasks : Top(stack[t]) = "rc_sleep"

\* C10: Close with reconnection enabled resets attempts to 0, clears
\* reconnecting and goes on into reconnect without closing the connection;
\* with reconnection disabled it closes the connection c.conn and returns,
\* with no Duration call, no sleep and no dial; and while reconnection is
\* enabled no connection is ever closed.
C10_CloseReconnectsOrReleases ==
    /\ [][\A t \in Threads :
             /\ (StepFrom(t, "Close") /\ gen >= 1)
                => IF reconnection
                   THEN /\ stack'[t] = Replace(stack[t], "cl_clear")
                        /\ retryStrategy'.attempts = 0
                        /\ UNCHANGED << released, last, nDial, nSpawn, gen >>
                   ELSE /\ stack'[t] = Pop(stack[t])
                        /\ released' = released \cup {gen}
                        /\ UNCHANGED << retryStrategy, last, reconnecting, nDial,
                                        nSpawn, gen >>
             /\ StepFrom(t, "cl_clear")
                => /\ stack'[t] = Replace(stack[t], "reconnect")
                   /\ UNCHANGED << released, last, nDial, nSpawn, gen >>]_vars
    /\ [](reconnection => released = {})

\* with reconnection enabled, a task that ended has run its deferred Close
\* and is inside reconnect, about to sleep before it connects again; the
\* connection has not been closed
C10_Witness ==
    /\ reconnection
    /\ gen >= 1
    /\ released = {}
    /\ retryStrategy.attempts = 1
    /\ \E t \in Tasks : stack[t] = << "rc_sleep" >>

(***************************************************************************)
(* Client: what one invocation of reconnect does                           *)
(***************************************************************************)
\* C11: when the Connect of a reconnect invocation has failed, reconnect
\* clears reconnecting and returns, with no further Duration call, sleep or
\* dial in that invocation.
C11_FailedConnectEndsReconnect ==
    [][\A t \in Threads :
          (StepFrom(t, "rc_after") /\ ret[t] # "nil")
          => /\ stack'[t] = Pop(stack[t])
             /\ reconnecting' = FALSE
             /\ UNCHANGED << last, nDial >>]_vars

(***************************************************************************)
(* Client: Connect and its tasks                                           *)
(***************************************************************************)
\* C12: Connect starts the three tasks exactly when it returns success: the
\* step after connectClient starts them if and only if it returns nil, a
\* failed dial starts none, and a Connect call that returns a handshake
\* failure has called no Duration, made no further dial and started no task
\* since its handshake failed.
C12_TasksIffConnectSucceeds ==
    [][\A t \in Threads :
          /\ StepFrom(t, "cn_handshake")
                => ((stack'[t] = Pop(stack[t]))
                      <=> /\ nSpawn' = nSpawn + 1
                          /\ \A role \in Roles :
                                stack'[<< role, nSpawn + 1 >>] = << LoopOf(role) >>)
          /\ (StepFrom(t, "Connect") /\ gen' = gen)
                => /\ nSpawn' = nSpawn
                   /\ \A u \in Threads \ {t} : stack'[u] = stack[u]
          /\ StepFrom(t, "cn_failed") => t \notin hist.nested]_vars

(***************************************************************************)
(* Encoder: the ready signal, with one producer, the drain and a caller of *)
(* WaitFrameClose, within a span of time shorter than the ping timeout.    *)
(* Every goroutine that can take a step                                    *)
(* eventually takes one: the drain is called again and again and goes on   *)
(* when one of its select cases is ready, a Close that has appended the    *)
(* separator goes on to release the flag and to post, WaitFrameClose goes  *)
(* on when it can send.  A goroutine blocked in a receive on hasFramesChan *)
(* is queued on the channel and is handed a value that is sent again and   *)
(* again, so the two receives are strongly fair.                           *)
(***************************************************************************)
NextWaiter ==
    \/ WaitFrameClose_load
    \/ WaitFrameClose_recv
    \/ WaitFrameClose_send

NextLive ==
    \/ NextProducer("p1")
    \/ NextDrain
    \/ NextWaiter
    \/ CloseSignal

Fairness ==
    /\ WF_vars(NextDrain)
    /\ SF_vars(WriteFramesTo_hasFrames)
    /\ WF_vars(Close_store("p1") \/ Close_post("p1"))
    /\ SF_vars(WaitFrameClose_recv)
    /\ WF_vars(WaitFrameClose_send)

SpecLive == Init /\ [][NextLive]_vars /\ Fairness

\* the bytes of the closed frames, each with its separator
ClosedBytes == Len(StreamOf(ClosedFrames))

\* the bytes of the first i closed frames, each with its separator; 0 while
\* fewer than i frames are closed
ClosedBytesTo(i) ==
    IF Len(ClosedFrames) >= i THEN Len(StreamOf(SubSeq(ClosedFrames, 1, i))) ELSE 0

\* C13: the ready signal holds at most one wake-up; a Close that posts
\* leaves exactly one pending, however many were posted before; the flush of
\* a woken WriteFramesTo passes every frame closed so far to the output, and
\* writes all of them when the output's Write does not fail; and every frame
\* closed on an encoder that is not closed is eventually written, the bytes
\* that were in the buffer when a write to an output failed left aside.
C13_SignalCoalescesAndFramesAreWritten ==
    /\ [](hasFramesChan \in {0, 1})
    /\ [][\A p \in Producers :
             (pc[p] = "post" /\ pc'[p] # "post") => hasFramesChan' = 1]_vars
    /\ [][(dpc = "flush" /\ dpc' = "idle") =>
             /\ Len(out') + dlost' >= ClosedBytes
             /\ dres' = "nil" => dlost' = dlost]_vars
    /\ \A i \in 1..MaxFrames :
          [](((Len(ClosedFrames) >= i) /\ ~closed)
                => <>(Len(out) + dlost >= ClosedBytesTo(i) \/ closed))

\* two Closes have completed before any drain consumed the signal: one
\* wake-up is pending and nothing has been written yet
C13_Witness ==
    /\ Len(frames) = 2
    /\ \A i \in 1..2 : frames[i].st = "closed"
    /\ pc["p1"] = "idle"
    /\ hasFramesChan = 1
    /\ out = << >>
    /\ dlost = 0
    /\ dres = "none"
    /\ ~closed

\* C14: WaitFrameClose blocks only when a writer is open; a call that is
\* blocked returns eventually once no writer is open any more (the writer
\* it waited for has completed its Close), also while WriteFramesTo runs;
\* and when it returns after blocking the ready signal is pending.
C14_WaitFrameCloseReturns ==
    /\ [][(wpc = "idle" /\ wpc' = "recv") => hasNonClosedFrame # 0]_vars
    /\ [][(wpc = "send" /\ wpc' = "idle") => hasFramesChan' = 1]_vars
    /\ [](((wpc = "recv") /\ hasNonClosedFrame = 0 /\ pc["p1"] = "idle")
             => <>(wpc = "idle"))

(***************************************************************************)
(* Encoder: a writer used again after its Close.  The producer has kept    *)
(* the frameWriter of frame i and calls Write, WriteByte or Close on it:   *)
(* the methods do not look at whether the writer was closed.  The base64   *)
(* encoder holds nothing back after its Close, so a second Close of it     *)
(* writes nothing.                                                         *)
(***************************************************************************)
MaxReclose == 1

RECURSIVE Reuses(_)
\* the times a writer was taken up again, over all frames
Reuses(fs) == IF fs = << >> THEN 0 ELSE fs[1].uses + Reuses(Tail(fs))

\* the producer takes up the writer of frame i, whose Close has returned
Writer_again(p, i) ==
    /\ pc[p] = "idle"
    /\ i \in DOMAIN frames
    /\ frames[i].st = "closed"
    /\ \A q \in Producers : wr[q] # i
    /\ Reuses(frames) < MaxReclose
    /\ wr' = [wr EXCEPT ![p] = i]
    /\ pc' = [pc EXCEPT ![p] = "open"]
    /\ frames' = [frames EXCEPT ![i].uses = @ + 1]
    /\ UNCHANGED << hasNonClosedFrame, hasFramesChan, closed, writer, lastPing, now,
                    res, dpc, ddeadline, dres, wpc, out, dlost, dclosed,
                    boVars, cliVars >>

NextReuse ==
    \/ \E p \in Producers : NextProducer(p)
    \/ \E p \in Producers, i \in 1..MaxFrames : Writer_again(p, i)

SpecReuse == Init /\ [][NextReuse]_vars

\* C15: a Close on a writer that is already closed appends no separator and
\* does not release the flag: the flag is 1 whenever a frame is open, and at
\* most one frame is open.
C15_SecondCloseIsInert ==
    /\ [][\A p \in Producers :
             (pc[p] # "store" /\ pc'[p] = "store" /\ frames[wr[p]].st = "closed")
             => writer' = writer]_vars
    /\ [](OpenFrames # {} => hasNonClosedFrame = 1)
    /\ [](Cardinality(OpenFrames) <= 1)

(***************************************************************************)
(* Client: reconnection attempts in flight, tasks and generations          *)
(***************************************************************************)
\* thread t is in a reconnect call that has passed its checks
InFlight(t) ==
    \E i \in 1..Len(stack[t]) :
        stack[t][i] \in {"rc_dur", "rc_inc", "rc_store", "rc_set", "rc_sleep",
                         "rc_after", "rc_done"}

\* C16: while a reconnect call of one thread has passed its checks and has
\* not returned, a reconnect call of any other thread returns nil at once,
\* without Duration, sleep or Connect; so at most one thread is in a
\* reconnection attempt.
C16_OneReconnectInFlight ==
    /\ [][\A t \in Threads :
             (StepFrom(t, "reconnect") /\ \E u \in Threads \ {t} : InFlight(u))
             => /\ stack'[t] = Pop(stack[t])
                /\ ret'[t] = Returned(t, stack[t], "nil")
                /\ UNCHANGED << retryStrategy, last, nDial >>]_vars
    /\ [](Cardinality({t \in Threads : InFlight(t)}) <= 1)

\* task t is running its loop (or a handler called from it)
Alive(t) == stack[t] # << >> /\ stack[t][1] \in {"rd_loop", "wr_loop", "er_loop"}

\* C17: with reconnection enabled, when the read task of a generation has
\* ended and its reconnection installs a new connection, the write and
\* error-relay tasks of that generation have exited; and at most three tasks
\* are alive.
C17_TasksScopedToGeneration ==
    /\ [][\A t \in Tasks :
             (t[1] = "rd" /\ ~Alive(t) /\ reconnection
                 /\ StepFrom(t, "Connect") /\ gen' > gen)
             => /\ ~Alive(<< "wr", t[2] >>)
                /\ ~Alive(<< "er", t[2] >>)]_vars
    /\ [](Cardinality({t \in Tasks : Alive(t)}) <= 3)

\* C18, for a client NewClient has made: with reconnectionAttempts = +Inf
\* no reconnect call enters the exhaustion branch, and the exhaustion error
\* is never returned.
C18_NewClientNeverExhausts ==
    reconnectionAttempts = Infinity =>
        /\ ~hist.exhausted
        /\ hist.late = {}
        /\ \A t \in Threads : Top(stack[t]) \notin {"rc_reset", "rc_clear"}

\* C18, for a client with a finite reconnectionAttempts, which no
\* constructor of client.go makes: once reconnect has returned the
\* exhaustion error, every reconnect call that begins its checks later and
\* finds no reconnection in flight returns the exhaustion error again: it
\* calls no Duration, does not sleep and does not dial.
C18_ExhaustionIsTerminal ==
    [][\A t \in Threads :
          (t \in hist.late /\ StepFrom(t, "rc_check"))
          => /\ stack'[t] = Replace(stack[t], "rc_reset")
             /\ UNCHANGED << last, nDial >>]_vars

\* C19: the Connect of a reconnect call that fails as the k-th in a row
\* since the last successful Connect was preceded by a delay that Duration
\* computed at attempts = k - 1; and attempts goes down only when a Connect
\* of reconnect has succeeded or when exhaustion is reported.
C19_AttemptsPersistAcrossFailures ==
    /\ [][\A t \in Threads :
             (StepFrom(t, "rc_after") /\ ret[t] # "nil")
             => Last(hist.delays[t]) = hist.fails]_vars
    /\ [][retryStrategy'.attempts < retryStrategy.attempts
             => \E t \in Threads :
                   \/ StepFrom(t, "rc_after") /\ ret[t] = "nil"
                   \/ StepFrom(t, "rc_reset")]_vars

(***************************************************************************)
(* Encoder: after the closed signal                                        *)
(***************************************************************************)
\* C20: once closed has fired, a NextFrame call returns io.EOF and leaves
\* the flag and the buffer alone, also while another writer is open; and a
\* WriteFramesTo that is blocked with no ready signal pending and the ping
\* deadline not passed returns io.EOF and writes nothing.
C20_EndOfStreamAfterClosed ==
    /\ [][\A p \in Producers :
             (closed /\ pc[p] = "idle")
             => /\ pc'[p] = "idle"
                /\ (res' # res /\ res'.p = p)
                      => /\ res' = Err(p, "NextFrame", "EOF")
                         /\ UNCHANGED << hasNonClosedFrame, writer, frames,
                                         hasFramesChan >>]_vars
    /\ [][(closed /\ dpc = "select" /\ hasFramesChan = 0
              /\ ~TimerFired(ddeadline, now) /\ dpc' # dpc)
          => /\ dpc' = "idle"
             /\ dres' = "EOF"
             /\ UNCHANGED << out, writer >>]_vars

\* after closed fired, p1's NextFrame has returned io.EOF while p2's writer
\* is open, and a WriteFramesTo has returned io.EOF with nothing written
C20_Witness ==
    /\ closed
    /\ res = Err("p1", "NextFrame", "EOF")
    /\ pc["p2"] = "open"
    /\ hasNonClosedFrame = 1
    /\ dres = "EOF"
    /\ out = << >>
    /\ writer # << >>

====
